---- MODULE Spec2Model ----
(***************************************************************************)
(* State-machine model of app.py, the SHFB access score dashboard.         *)
(*                                                                         *)
(* The script is run top to bottom once per widget interaction, one run    *)
(* per browser session at a time.  The three loaded tables are returned by *)
(* st.cache_resource, so every run of every session works on the SAME      *)
(* Python objects.  Data frames are therefore modelled as objects in a     *)
(* heap, and the script's variables hold references into it.               *)
(*                                                                         *)
(* Floats are tagged records: a number (in thousandths), NaN or +inf.      *)
(* Nullable text cells are tagged records as well.                         *)
(***************************************************************************)
EXTENDS Integers, Sequences, FiniteSets, TLC

(***************************************************************************)
(* Values                                                                  *)
(***************************************************************************)
F(n) == [k |-> "num", v |-> n]
NaN == [k |-> "nan", v |-> 0]
PosInf == [k |-> "inf", v |-> 0]

S(t) == [k |-> "str", s |-> t]
NaNText == [k |-> "nan", s |-> ""]

\* Top_Agencies cell: serialized text, an already structured list, or missing
AgText(t) == [k |-> "str", s |-> t, l |-> <<>>]
AgList(l) == [k |-> "list", s |-> "", l |-> l]
AgNaN == [k |-> "nan", s |-> "", l |-> <<>>]

None == [k |-> "none"]

Range(f) == {f[i] : i \in DOMAIN f}

\* np.isfinite
isfinite(x) == x.k = "num"

\* x <= y on floats; every comparison with NaN is False
FLe(x, y) ==
    /\ x.k # "nan" /\ y.k # "nan"
    /\ \/ y.k = "inf"
       \/ x.k = "num" /\ y.k = "num" /\ x.v <= y.v

FLt(x, y) == FLe(x, y) /\ x # y

\* round(2): nearest hundredth, ties to the even hundredth (np.round)
round2(x) ==
    IF x.k # "num" THEN x
    ELSE LET q == x.v \div 10
             r == x.v % 10
         IN  IF r < 5 THEN F(10 * q)
             ELSE IF r > 5 THEN F(10 * (q + 1))
             ELSE IF q % 2 = 0 THEN F(10 * q) ELSE F(10 * (q + 1))

(***************************************************************************)
(* Text operations used by the county clean-up (lines 125-131)             *)
(***************************************************************************)
UpperLetters == "ABCDEFGHIJKLMNOPQRSTUVWXYZ"
LowerLetters == "abcdefghijklmnopqrstuvwxyz"

CharAt(s, i) == SubSeq(s, i, i)

LetterIndex(alphabet, c) ==
    LET hits == {i \in 1..Len(alphabet) : CharAt(alphabet, i) = c}
    IN  IF hits = {} THEN 0 ELSE CHOOSE i \in hits : TRUE

IsAlpha(c) == LetterIndex(UpperLetters, c) > 0 \/ LetterIndex(LowerLetters, c) > 0

lower(c) ==
    IF LetterIndex(UpperLetters, c) > 0
    THEN CharAt(LowerLetters, LetterIndex(UpperLetters, c)) ELSE c

upper(c) ==
    IF LetterIndex(LowerLetters, c) > 0
    THEN CharAt(UpperLetters, LetterIndex(LowerLetters, c)) ELSE c

IsSpace(c) == c = " "

RECURSIVE lstrip(_)
lstrip(s) ==
    IF Len(s) > 0 /\ IsSpace(CharAt(s, 1)) THEN lstrip(SubSeq(s, 2, Len(s))) ELSE s

RECURSIVE rstrip(_)
rstrip(s) ==
    IF Len(s) > 0 /\ IsSpace(CharAt(s, Len(s)))
    THEN rstrip(SubSeq(s, 1, Len(s) - 1)) ELSE s

\* .str.strip()
strip(s) == rstrip(lstrip(s))

RECURSIVE casefold(_)
casefold(s) ==
    IF Len(s) = 0 THEN s
    ELSE lower(CharAt(s, 1)) \o casefold(SubSeq(s, 2, Len(s)))

\* .str.replace(r"\s*county$", "", case=False, regex=True)
replace_county(s) ==
    IF Len(s) >= 6 /\ casefold(SubSeq(s, Len(s) - 5, Len(s))) = "county"
    THEN rstrip(SubSeq(s, 1, Len(s) - 6))
    ELSE s

\* .str.title(): a letter is upper-cased after a non-letter, lower-cased after a letter
RECURSIVE title_from(_, _)
title_from(s, i) ==
    IF i > Len(s) THEN ""
    ELSE LET c == CharAt(s, i)
             start == i = 1 \/ ~IsAlpha(CharAt(s, i - 1))
         IN  (IF start THEN upper(c) ELSE lower(c)) \o title_from(s, i + 1)

title(s) == title_from(s, 1)

\* the clean-up without the title-casing
County_clean_no_title(label) == replace_county(strip(label))

County_clean(label) == title(replace_county(strip(label)))

target_counties ==
    << "Alamance", "Alexander", "Alleghany", "Ashe", "Caldwell", "Caswell",
       "Davidson", "Davie", "Forsyth", "Guilford", "Iredell", "Randolph",
       "Rockingham", "Stokes", "Surry", "Watauga", "Wilkes", "Yadkin" >>

isin(v, list) == v \in Range(list)

(***************************************************************************)
(* json.loads (line 216)                                                   *)
(*                                                                         *)
(* A recursive-descent reading of JSON text: arrays, objects, strings      *)
(* without escapes, decimal numbers without exponent (kept in              *)
(* thousandths), true, false and null.  A Python value is a tagged record. *)
(***************************************************************************)
Py(kind, val) == [kind |-> kind, val |-> val]
PyNone == Py("none", 0)

Parsed(val, next) == [ok |-> TRUE, val |-> val, next |-> next]
JSONDecodeError == [ok |-> FALSE, val |-> PyNone, next |-> 0]

Digits == "0123456789"
IsDigit(c) == LetterIndex(Digits, c) > 0
DigitValue(c) == LetterIndex(Digits, c) - 1

RECURSIVE SkipWs(_, _)
SkipWs(s, i) == IF i <= Len(s) /\ IsSpace(CharAt(s, i)) THEN SkipWs(s, i + 1) ELSE i

RECURSIVE DigitsEnd(_, _)
DigitsEnd(s, i) == IF i <= Len(s) /\ IsDigit(CharAt(s, i)) THEN DigitsEnd(s, i + 1) ELSE i

RECURSIVE ToInt(_)
ToInt(s) == IF s = "" THEN 0 ELSE 10 * ToInt(SubSeq(s, 1, Len(s) - 1)) + DigitValue(CharAt(s, Len(s)))

HasAt(s, i, word) ==
    i >= 1 /\ i + Len(word) - 1 <= Len(s) /\ SubSeq(s, i, i + Len(word) - 1) = word

ParseNumber(s, i) ==
    LET neg == HasAt(s, i, "-")
        a == IF neg THEN i + 1 ELSE i
        b == DigitsEnd(s, a)
        frac == HasAt(s, b, ".")
        c == IF frac THEN DigitsEnd(s, b + 1) ELSE b
        thousandths == ToInt(SubSeq(SubSeq(s, b + 1, c - 1) \o "000", 1, 3))
        n == 1000 * ToInt(SubSeq(s, a, b - 1)) + (IF frac THEN thousandths ELSE 0)
    IN  IF b = a \/ (frac /\ c = b + 1) THEN JSONDecodeError
        ELSE Parsed(Py("num", F(IF neg THEN 0 - n ELSE n)), c)

RECURSIVE QuoteAt(_, _)
QuoteAt(s, i) == IF i > Len(s) THEN 0 ELSE IF CharAt(s, i) = "\"" THEN i ELSE QuoteAt(s, i + 1)

ParseString(s, i) ==
    LET q == QuoteAt(s, i + 1)
    IN  IF ~HasAt(s, i, "\"") \/ q = 0 THEN JSONDecodeError
        ELSE Parsed(Py("str", SubSeq(s, i + 1, q - 1)), q + 1)

RECURSIVE ParseValue(_, _), ParseItems(_, _, _), ParseMembers(_, _, _)

\* the value starting at position i
ParseValue(s, i) ==
    IF i > Len(s) THEN JSONDecodeError
    ELSE IF HasAt(s, i, "[") THEN
        (IF HasAt(s, SkipWs(s, i + 1), "]")
         THEN Parsed(Py("list", <<>>), SkipWs(s, i + 1) + 1)
         ELSE ParseItems(s, SkipWs(s, i + 1), <<>>))
    ELSE IF HasAt(s, i, "{") THEN
        (IF HasAt(s, SkipWs(s, i + 1), "}")
         THEN Parsed(Py("dict", <<>>), SkipWs(s, i + 1) + 1)
         ELSE ParseMembers(s, SkipWs(s, i + 1), <<>>))
    ELSE IF HasAt(s, i, "\"") THEN ParseString(s, i)
    ELSE IF HasAt(s, i, "true") THEN Parsed(Py("bool", TRUE), i + 4)
    ELSE IF HasAt(s, i, "false") THEN Parsed(Py("bool", FALSE), i + 5)
    ELSE IF HasAt(s, i, "null") THEN Parsed(PyNone, i + 4)
    ELSE ParseNumber(s, i)

\* the items of an array, from the item starting at i
ParseItems(s, i, acc) ==
    LET item == ParseValue(s, i)
        j == SkipWs(s, item.next)
    IN  IF ~item.ok THEN JSONDecodeError
        ELSE IF HasAt(s, j, ",") THEN ParseItems(s, SkipWs(s, j + 1), Append(acc, item.val))
        ELSE IF HasAt(s, j, "]") THEN Parsed(Py("list", Append(acc, item.val)), j + 1)
        ELSE JSONDecodeError

\* the members of an object, from the key starting at i; a dict is the
\* sequence of its <<key, value>> pairs
ParseMembers(s, i, acc) ==
    LET key == ParseString(s, i)
        c == SkipWs(s, key.next)
        item == ParseValue(s, SkipWs(s, c + 1))
        j == SkipWs(s, item.next)
    IN  IF ~key.ok \/ ~HasAt(s, c, ":") THEN JSONDecodeError
        ELSE IF ~item.ok THEN JSONDecodeError
        ELSE IF HasAt(s, j, ",")
             THEN ParseMembers(s, SkipWs(s, j + 1), Append(acc, <<key.val.val, item.val>>))
        ELSE IF HasAt(s, j, "}")
             THEN Parsed(Py("dict", Append(acc, <<key.val.val, item.val>>)), j + 1)
        ELSE JSONDecodeError

\* json.loads(text): the whole text must be one value
json_loads(text) ==
    LET v == ParseValue(text, SkipWs(text, 1))
    IN  IF v.ok /\ SkipWs(text, v.next) = Len(text) + 1 THEN v ELSE JSONDecodeError

(***************************************************************************)
(* Data frames                                                             *)
(*                                                                         *)
(* A frame is an object with rows (records, one field per column, in row   *)
(* order) and a coordinate reference ("none" for a plain DataFrame).       *)
(***************************************************************************)
Frame(rows, crs) == [rows |-> rows, crs |-> crs]
Free == Frame(<<>>, "free")

\* an emptiness test that never fires
empty_never(df) == FALSE

\* df.empty
empty(df) == Len(df.rows) = 0

\* df[name] = value, on one row
SetCol(r, name, value) == (name :> value) @@ r

\* df[[cols]], on one row
Project(r, cols) == [c \in cols |-> r[c]]

\* rename(columns={old: new}), on one row
RenameCol(r, old, new) ==
    IF old \notin DOMAIN r THEN r
    ELSE [c \in (DOMAIN r \ {old}) \cup {new} |-> IF c = new THEN r[old] ELSE r[c]]

MapRows(rows, Op(_)) == [i \in DOMAIN rows |-> Op(rows[i])]

\* left.merge(right, on="GEOID", how="left"): one output row per (left row,
\* matching right row) pair in left order, or one NaN-filled row when no
\* right row has the key.  nanrow holds the right-hand columns, all missing.
RECURSIVE JoinOne(_, _)
JoinOne(l, matches) ==
    IF matches = <<>> THEN <<>>
    ELSE <<Head(matches) @@ l>> \o JoinOne(l, Tail(matches))

\* the join as an inner join: left rows without a match are dropped
RECURSIVE merge_inner(_, _, _)
merge_inner(left, right, nanrow) ==
    IF left = <<>> THEN <<>>
    ELSE LET l == Head(left)
             matches == SelectSeq(right, LAMBDA r : r.GEOID = l.GEOID)
         IN  JoinOne(l, matches) \o merge_inner(Tail(left), right, nanrow)

RECURSIVE merge(_, _, _)
merge(left, right, nanrow) ==
    IF left = <<>> THEN <<>>
    ELSE LET l == Head(left)
             matches == SelectSeq(right, LAMBDA r : r.GEOID = l.GEOID)
         IN  (IF matches = <<>> THEN <<nanrow @@ l>> ELSE JoinOne(l, matches))
                 \o merge(Tail(left), right, nanrow)

(***************************************************************************)
(* The heap                                                                *)
(***************************************************************************)
Sessions == {1, 2}
Cache == 0

\* the objects returned by the cached loaders (lines 20-33)
pre_df == <<Cache, "pre_df">>
geo_map == <<Cache, "geo_map">>
tracts_gdf == <<Cache, "tracts_gdf">>

\* one slot per place of the script that creates a frame
Sites ==
    { "pre_df[mask]", "filtered_df", "geo_map_subset", "merged", "tracts_clean",
      "tracts_clean[mask]", "tracts_filtered", "plot_df", "to_crs" }

ObjIds == {pre_df, geo_map, tracts_gdf} \cup (Sessions \X Sites)

NoRef == <<Cache, "None">>

\* reference counting: a frame of session s no variable refers to is released
Collect(h, s, live) ==
    [id \in DOMAIN h |-> IF id[1] = s /\ id \notin live THEN Free ELSE h[id]]

\* df.copy(): a new object with the same contents
copy_alias(h, src, dst) == [heap |-> h, ref |-> src]

copy(h, src, dst) == [heap |-> [h EXCEPT ![dst] = h[src]], ref |-> dst]

(***************************************************************************)
(* The loaded tables                                                       *)
(*                                                                         *)
(* The files are read once by the loaders; the model starts from any of a  *)
(* bounded family of tables.                                               *)
(***************************************************************************)
MaxRows == 2

ScoreRecord(g, u, r, w, d, h, score, ag) ==
    [ GEOID |-> g, urban_threshold |-> u, rural_threshold |-> r, week |-> w,
      day |-> d, hour |-> h, Access_Score |-> score, Top_Agencies |-> ag ]

\* one entry of an already structured Top_Agencies list
Agency(name, contribution) ==
    Py("dict", << <<"Agency", Py("str", name)>>,
                  <<"Agency_Contribution", Py("num", F(contribution))>> >>)

ValidAgencies == "[{\"Agency\": \"A\", \"Agency_Contribution\": 1.236}, {\"Agency\": \"B\", \"Agency_Contribution\": 0.5}]"
Malformed == "{not json"

\* records of one scenario, differing in region, hour, score and agency payload
PipelineRows ==
    { ScoreRecord("37001", 30, 60, 1, "Mon", 9, F(1234), AgText(ValidAgencies)),
      ScoreRecord("37001", 30, 60, 1, "Mon", 17, F(2500), AgText(Malformed)),
      ScoreRecord("37001", 30, 60, 1, "Mon", 18, F(125), AgText("[]")),
      ScoreRecord("37002", 30, 60, 1, "Mon", 9, F(0),
                  AgList(<<Agency("C", 2005)>>)),
      ScoreRecord("37002", 30, 60, 1, "Mon", 17, PosInf, AgList(<<>>)),
      ScoreRecord("37003", 30, 60, 1, "Mon", 9, F(3000), AgText("[]")) }

\* records of one region, differing from the first in one scenario field each
ScenarioRows ==
    { ScoreRecord("37001", 30, 60, 1, "Mon", 9, F(1234), AgText(ValidAgencies)),
      ScoreRecord("37001", 45, 60, 1, "Mon", 9, F(1100), AgText("[]")),
      ScoreRecord("37001", 30, 90, 1, "Mon", 9, F(1200), AgText("[]")),
      ScoreRecord("37001", 30, 60, 2, "Mon", 9, F(1300), AgText("[]")),
      ScoreRecord("37001", 30, 60, 1, "Tue", 9, F(1400), AgText("[]")),
      ScoreRecord("37001", 30, 60, 1, "Mon", 16, F(1500), AgText("[]")),
      ScoreRecord("37001", 30, 60, 1, "Mon", 17, F(2500), AgText(Malformed)),
      ScoreRecord("37001", 30, 60, 1, "Mon", 18, F(125), AgText("[]")) }

\* the tables of up to MaxRows records, no record twice (a table has one
\* record per region and scenario)
Tables(rowset) ==
    {t \in UNION {[1..n -> rowset] : n \in 1..MaxRows} :
        \A i, j \in DOMAIN t : t[i] = t[j] => i = j}

\* a region's polygon, as the set of grid points it contains
Square(x, y) == {<<x, y>>, <<x + 1, y>>, <<x, y + 1>>, <<x + 1, y + 1>>}

Region(g, label, geometry) == [GEOID |-> g, NAMELSADCO |-> label, geometry |-> geometry]

CountyRow(g, county) == [GEOID_x |-> g, County_x |-> S(county)]

\* the census file: three tracts, the third outside the service area
CensusCase ==
    [ tracts_gdf |-> Frame(<< Region("37001", "Davie County", Square(0, 0)),
                              Region("37002", "Forsyth County", Square(2, 0)),
                              Region("37003", "Wake County", Square(6, 0)) >>, "EPSG:4269"),
      geo_map |-> Frame(<< CountyRow("37001", "Davie"), CountyRow("37002", "Forsyth"),
                           CountyRow("37003", "Wake") >>, "none") ]

\* labels that need every clean-up step; a lookup with two rows for one tract
\* and none for another
MessyCase ==
    [ tracts_gdf |-> Frame(<< Region("37001", " davie COUNTY ", Square(0, 0)),
                              Region("37002", "yadkin", Square(2, 0)),
                              Region("37003", "New Hanover County", Square(6, 0)) >>, "EPSG:4326"),
      geo_map |-> Frame(<< CountyRow("37001", "Davie"), CountyRow("37001", "Davie Co"),
                           CountyRow("37003", "New Hanover") >>, "none") ]

\* no tract of the service area at all
OutsideCase ==
    [ tracts_gdf |-> Frame(<< Region("37003", "WAKE COUNTY", Square(6, 0)) >>, "none"),
      geo_map |-> Frame(<<>>, "none") ]

\* a single tract, already in longitude/latitude
SingleCase ==
    [ tracts_gdf |-> Frame(<< Region("37001", "Davie County", Square(0, 0)) >>, "epsg:4326"),
      geo_map |-> Frame(<< CountyRow("37001", "Davie") >>, "none") ]

GeoCases == {CensusCase, MessyCase, OutsideCase, SingleCase}

Datasets ==
    {[pre_df |-> t, geo |-> CensusCase] : t \in Tables(ScenarioRows)}
        \cup {[pre_df |-> t, geo |-> g] : t \in Tables(PipelineRows), g \in GeoCases}

\* the hours the slider is moved to (st.sidebar.slider("Select Hour", 0, 23, 10))
SliderHours == {9, 10, 17}

\* where the user clicks on the map, if at all
ClickPoints == {<<0, 1>>, <<3, 0>>, <<6, 1>>, <<9, 9>>}

(***************************************************************************)
(* State                                                                   *)
(***************************************************************************)
VARIABLES
    heap,               \* object id -> frame
    sessions,           \* the browser sessions that are connected
    pc,                 \* per session: the section of the script to run next
    urban_sel, rural_sel, week_sel, day_sel, hour_sel, after_hours,
    filtered_df, geo_map_subset, tracts_clean, tracts_filtered, plot_df,
    vmin, vmax,
    map_output,
    clicked_geoid, agencies, df_ag,
    top10, bottom10,
    page                \* per session: what the run has put on the page, in order

widgets == <<urban_sel, rural_sel, week_sel, day_sel, hour_sel, after_hours>>
frames == <<filtered_df, geo_map_subset, tracts_clean, tracts_filtered, plot_df>>
scale == <<vmin, vmax>>
detail == <<clicked_geoid, agencies, df_ag>>
summary == <<top10, bottom10>>
vars == <<heap, sessions, pc, widgets, frames, scale, map_output, detail, summary, page>>

\* the frames the variables of session s refer to
Live(fd, gs, tc, tf, pd) == {fd, gs, tc, tf, pd}

unique(df, col) == {df.rows[i][col] : i \in DOMAIN df.rows}

InitFrom(ds, connected) ==
    /\ heap = [id \in ObjIds |->
                  IF id = pre_df THEN Frame(ds.pre_df, "none")
                  ELSE IF id = geo_map THEN ds.geo.geo_map
                  ELSE IF id = tracts_gdf THEN ds.geo.tracts_gdf
                  ELSE Free]
    /\ sessions = connected
    /\ pc = [s \in Sessions |-> "idle"]
    /\ urban_sel = [s \in Sessions |-> 0]
    /\ rural_sel = [s \in Sessions |-> 0]
    /\ week_sel = [s \in Sessions |-> 0]
    /\ day_sel = [s \in Sessions |-> ""]
    /\ hour_sel = [s \in Sessions |-> 0]
    /\ after_hours = [s \in Sessions |-> FALSE]
    /\ filtered_df = [s \in Sessions |-> NoRef]
    /\ geo_map_subset = [s \in Sessions |-> NoRef]
    /\ tracts_clean = [s \in Sessions |-> NoRef]
    /\ tracts_filtered = [s \in Sessions |-> NoRef]
    /\ plot_df = [s \in Sessions |-> NoRef]
    /\ vmin = [s \in Sessions |-> None]
    /\ vmax = [s \in Sessions |-> None]
    /\ map_output = [s \in Sessions |-> None]
    /\ clicked_geoid = [s \in Sessions |-> ""]
    /\ agencies = [s \in Sessions |-> PyNone]
    /\ df_ag = [s \in Sessions |-> <<>>]
    /\ top10 = [s \in Sessions |-> <<>>]
    /\ bottom10 = [s \in Sessions |-> <<>>]
    /\ page = [s \in Sessions |-> <<>>]

Init == \E ds \in Datasets : InitFrom(ds, {1})

(***************************************************************************)
(* One run of the script, section by section                               *)
(***************************************************************************)

\* lines 38-51: a widget interaction (or a new session) starts a run with
\* fresh script variables; the select boxes offer the values of the table
Rerun(s) ==
    /\ s \in sessions
    /\ pc[s] \in {"idle", "done", "stopped"}
    /\ \E u \in unique(heap[pre_df], "urban_threshold"),
          r \in unique(heap[pre_df], "rural_threshold"),
          w \in unique(heap[pre_df], "week"),
          d \in unique(heap[pre_df], "day"),
          h \in SliderHours,
          a \in BOOLEAN :
            /\ urban_sel' = [urban_sel EXCEPT ![s] = u]
            /\ rural_sel' = [rural_sel EXCEPT ![s] = r]
            /\ week_sel' = [week_sel EXCEPT ![s] = w]
            /\ day_sel' = [day_sel EXCEPT ![s] = d]
            /\ hour_sel' = [hour_sel EXCEPT ![s] = h]
            /\ after_hours' = [after_hours EXCEPT ![s] = a]
    /\ heap' = Collect(heap, s, {})
    /\ filtered_df' = [filtered_df EXCEPT ![s] = NoRef]
    /\ geo_map_subset' = [geo_map_subset EXCEPT ![s] = NoRef]
    /\ tracts_clean' = [tracts_clean EXCEPT ![s] = NoRef]
    /\ tracts_filtered' = [tracts_filtered EXCEPT ![s] = NoRef]
    /\ plot_df' = [plot_df EXCEPT ![s] = NoRef]
    /\ vmin' = [vmin EXCEPT ![s] = None]
    /\ vmax' = [vmax EXCEPT ![s] = None]
    /\ map_output' = [map_output EXCEPT ![s] = None]
    /\ clicked_geoid' = [clicked_geoid EXCEPT ![s] = ""]
    /\ agencies' = [agencies EXCEPT ![s] = PyNone]
    /\ df_ag' = [df_ag EXCEPT ![s] = <<>>]
    /\ top10' = [top10 EXCEPT ![s] = <<>>]
    /\ bottom10' = [bottom10 EXCEPT ![s] = <<>>]
    /\ page' = [page EXCEPT ![s] = <<"title">>]
    /\ pc' = [pc EXCEPT ![s] = "filter"]
    /\ UNCHANGED sessions

\* the mask with the after-hours bound off by one
mask_after_17(r, u, ru, w, d, h, after) ==
    /\ r.urban_threshold = u
    /\ r.rural_threshold = ru
    /\ r.week = w
    /\ r.day = d
    /\ IF after THEN r.hour > 17 ELSE r.hour = h

\* lines 56-73: the boolean mask of the active mode
mask(r, u, ru, w, d, h, after) ==
    IF after
    THEN /\ r.urban_threshold = u
         /\ r.rural_threshold = ru
         /\ r.week = w
         /\ r.day = d
         /\ r.hour >= 17
    ELSE /\ r.urban_threshold = u
         /\ r.rural_threshold = ru
         /\ r.week = w
         /\ r.day = d
         /\ r.hour = h

\* df[mask]: a new frame with the rows the mask keeps
BoolIndex(df, Keep(_)) == Frame(SelectSeq(df.rows, Keep), df.crs)

\* lines 56-73
FilterData(s) ==
    /\ pc[s] = "filter"
    /\ LET Keep(r) == mask(r, urban_sel[s], rural_sel[s], week_sel[s], day_sel[s],
                           hour_sel[s], after_hours[s])
           h1 == [heap EXCEPT ![<<s, "pre_df[mask]">>] = BoolIndex(heap[pre_df], Keep)]
           c == copy(h1, <<s, "pre_df[mask]">>, <<s, "filtered_df">>)
       IN  /\ filtered_df' = [filtered_df EXCEPT ![s] = c.ref]
           /\ heap' = Collect(c.heap, s,
                              Live(c.ref, geo_map_subset[s], tracts_clean[s],
                                   tracts_filtered[s], plot_df[s]))
    /\ pc' = [pc EXCEPT ![s] = "check"]
    /\ UNCHANGED <<sessions, widgets, geo_map_subset, tracts_clean, tracts_filtered,
                   plot_df, scale, map_output, detail, summary, page>>

\* lines 75-77: st.warning and st.stop() end the run when nothing matched
CheckEmpty(s) ==
    /\ pc[s] = "check"
    /\ IF empty(heap[filtered_df[s]])
       THEN /\ page' = [page EXCEPT ![s] = Append(@, "warning: No data available")]
            /\ pc' = [pc EXCEPT ![s] = "stopped"]
       ELSE /\ pc' = [pc EXCEPT ![s] = "county"]
            /\ UNCHANGED page
    /\ UNCHANGED <<heap, sessions, widgets, frames, scale, map_output, detail, summary>>

\* lines 82-84: attach the county of the lookup table
MergeCounty(s) ==
    /\ pc[s] = "county"
    /\ LET subset == <<s, "geo_map_subset">>
           merged == <<s, "merged">>
           h1 == [heap EXCEPT ![subset] =
                     Frame(MapRows(heap[geo_map].rows,
                                   LAMBDA r : RenameCol(r, "GEOID_x", "GEOID")), "none")]
           right == MapRows(h1[subset].rows, LAMBDA r : Project(r, {"GEOID", "County_x"}))
           h2 == [h1 EXCEPT ![merged] =
                     Frame(merge(h1[filtered_df[s]].rows, right, [County_x |-> NaNText]),
                           "none")]
           \* rename(..., inplace=True) acts on the object filtered_df now names
           h3 == [h2 EXCEPT ![merged].rows =
                     MapRows(@, LAMBDA r : RenameCol(r, "County_x", "County"))]
       IN  /\ geo_map_subset' = [geo_map_subset EXCEPT ![s] = subset]
           /\ filtered_df' = [filtered_df EXCEPT ![s] = merged]
           /\ heap' = Collect(h3, s,
                              Live(merged, subset, tracts_clean[s], tracts_filtered[s],
                                   plot_df[s]))
    /\ pc' = [pc EXCEPT ![s] = "clean"]
    /\ UNCHANGED <<sessions, widgets, tracts_clean, tracts_filtered, plot_df, scale,
                   map_output, detail, summary, page>>

\* lines 123-139: clean the county names and keep the target counties
CleanShapefile(s) ==
    /\ pc[s] = "clean"
    /\ LET c == copy(heap, tracts_gdf, <<s, "tracts_clean">>)
           \* tracts_clean["County_clean"] = ... writes into the object tracts_clean names
           h1 == [c.heap EXCEPT ![c.ref].rows =
                     MapRows(@, LAMBDA r :
                         SetCol(r, "County_clean", County_clean(r.NAMELSADCO)))]
           h2 == [h1 EXCEPT ![<<s, "tracts_clean[mask]">>] =
                     BoolIndex(h1[c.ref], LAMBDA r : isin(r.County_clean, target_counties))]
           c2 == copy(h2, <<s, "tracts_clean[mask]">>, <<s, "tracts_filtered">>)
       IN  /\ tracts_clean' = [tracts_clean EXCEPT ![s] = c.ref]
           /\ tracts_filtered' = [tracts_filtered EXCEPT ![s] = c2.ref]
           /\ heap' = Collect(c2.heap, s,
                              Live(filtered_df[s], geo_map_subset[s], c.ref, c2.ref,
                                   plot_df[s]))
    /\ pc' = [pc EXCEPT ![s] = "join"]
    /\ UNCHANGED <<sessions, widgets, filtered_df, geo_map_subset, plot_df, scale,
                   map_output, detail, summary, page>>

\* the fill without the Top_Agencies default
FillBlanks_no_agencies(r) ==
    LET r1 == SetCol(r, "Access_Score",
                     round2(IF r.Access_Score.k = "nan" THEN F(0) ELSE r.Access_Score))
    IN  SetCol(r1, "County",
               IF r1.County.k = "nan" THEN S(r1.County_clean) ELSE r1.County)

\* lines 148-150: the three fillna assignments, on one row
FillBlanks(r) ==
    LET r1 == SetCol(r, "Access_Score",
                     round2(IF r.Access_Score.k = "nan" THEN F(0) ELSE r.Access_Score))
        r2 == SetCol(r1, "County",
                     IF r1.County.k = "nan" THEN S(r1.County_clean) ELSE r1.County)
    IN  SetCol(r2, "Top_Agencies",
               IF r2.Top_Agencies.k = "nan" THEN AgText("[]") ELSE r2.Top_Agencies)

\* to_crs(epsg=4326): a new frame in longitude/latitude.  The grid of the
\* model is coarser than the shift between the references, so a polygon keeps
\* its grid points.
to_crs(df) == Frame(df.rows, "EPSG:4326")

\* lines 142-154: join the scores onto the tracts
JoinPlot(s) ==
    /\ pc[s] = "join"
    /\ LET joined == <<s, "plot_df">>
           right == MapRows(heap[filtered_df[s]].rows, LAMBDA r :
                        Project(r, {"GEOID", "Access_Score", "County", "Top_Agencies"}))
           h1 == [heap EXCEPT ![joined] =
                     Frame(merge(heap[tracts_filtered[s]].rows, right,
                                 [Access_Score |-> NaN, County |-> NaNText,
                                  Top_Agencies |-> AgNaN]),
                           heap[tracts_filtered[s]].crs)]
           h2 == [h1 EXCEPT ![joined].rows = MapRows(@, FillBlanks)]
           convert == h2[joined].crs # "none" /\ casefold(h2[joined].crs) # "epsg:4326"
           h3 == IF convert THEN [h2 EXCEPT ![<<s, "to_crs">>] = to_crs(h2[joined])] ELSE h2
           ref == IF convert THEN <<s, "to_crs">> ELSE joined
       IN  /\ plot_df' = [plot_df EXCEPT ![s] = ref]
           /\ heap' = Collect(h3, s,
                              Live(filtered_df[s], geo_map_subset[s], tracts_clean[s],
                                   tracts_filtered[s], ref))
    /\ pc' = [pc EXCEPT ![s] = "scale"]
    /\ UNCHANGED <<sessions, widgets, filtered_df, geo_map_subset, tracts_clean,
                   tracts_filtered, scale, map_output, detail, summary, page>>

\* Series.max(): the largest value that is not NaN, NaN when there is none
RECURSIVE series_max(_)
series_max(values) ==
    IF values = <<>> THEN NaN
    ELSE LET rest == series_max(Tail(values))
             x == Head(values)
         IN  IF x.k = "nan" THEN rest
             ELSE IF rest.k = "nan" \/ FLe(rest, x) THEN x ELSE rest

\* the scale with a guard that lets vmax == vmin through
colormap_strict(scores) ==
    LET lo == F(0)
        hi == series_max(scores)
    IN  [ vmin |-> lo,
          vmax |-> IF ~isfinite(hi) \/ FLt(hi, lo) THEN F(lo.v + 1000) ELSE hi ]

\* lines 165-167: the range of the colour scale
colormap(scores) ==
    LET lo == F(0)
        hi == series_max(scores)
    IN  [ vmin |-> lo,
          vmax |-> IF ~isfinite(hi) \/ FLe(hi, lo) THEN F(lo.v + 1000) ELSE hi ]

\* lines 162-174
BuildScale(s) ==
    /\ pc[s] = "scale"
    /\ LET cm == colormap(MapRows(heap[plot_df[s]].rows, LAMBDA r : r.Access_Score))
       IN  /\ vmin' = [vmin EXCEPT ![s] = cm.vmin]
           /\ vmax' = [vmax EXCEPT ![s] = cm.vmax]
    /\ pc' = [pc EXCEPT ![s] = "map"]
    /\ UNCHANGED <<heap, sessions, widgets, frames, map_output, detail, summary, page>>

\* what st_folium can return: the position of the last click, if any, and the
\* last active drawing.  A click on drawn features makes one of them (they may
\* lie on top of each other) the active drawing.  A click that hits none, or
\* a run started by a sidebar widget, leaves the active drawing as the browser
\* holds it: none, or a tract clicked earlier in the session (every run draws
\* the same tracts).
NoClick == <<>>

st_folium(features, click) ==
    LET hits == {i \in DOMAIN features : click \in features[i].geometry}
        drawn == {[GEOID |-> features[i].GEOID] : i \in DOMAIN features}
    IN  IF click # NoClick /\ hits # {}
        THEN {[last_clicked |-> click,
               last_active_drawing |-> [GEOID |-> features[i].GEOID]] : i \in hits}
        ELSE {[last_clicked |-> click, last_active_drawing |-> d] :
                  d \in {None} \cup drawn}

\* lines 186-200: draw the map and read the widget state
RenderMap(s) ==
    /\ pc[s] = "map"
    /\ \E click \in ClickPoints \cup {NoClick} :
          \E out \in st_folium(heap[plot_df[s]].rows, click) :
              map_output' = [map_output EXCEPT ![s] = out]
    /\ page' = [page EXCEPT ![s] = Append(@, "map")]
    /\ pc' = [pc EXCEPT ![s] = "click"]
    /\ UNCHANGED <<heap, sessions, widgets, frames, scale, detail, summary>>

\* `if x:` on a Python value
truthy(x) ==
    IF x.kind \in {"list", "dict", "str"} THEN Len(x.val) > 0
    ELSE IF x.kind = "num" THEN x.val # F(0)
    ELSE IF x.kind = "bool" THEN x.val
    ELSE FALSE

Keys(d) == {d.val[i][1] : i \in DOMAIN d.val}
Get(d, key) ==
    LET hits == {i \in DOMAIN d.val : d.val[i][1] = key}
    IN  IF hits = {} THEN Py("num", NaN) ELSE d.val[CHOOSE i \in hits : \A j \in hits : j <= i][2]

\* lines 219-220: pd.DataFrame(agencies) with Agency_Contribution rounded.
\* ok is FALSE where pandas raises.
AgencyFrame(x) ==
    LET records == x.kind = "list" /\ \A i \in DOMAIN x.val : x.val[i].kind = "dict"
        columns == UNION {Keys(x.val[i]) : i \in DOMAIN x.val}
        numeric == \A i \in DOMAIN x.val : Get(x.val[i], "Agency_Contribution").kind = "num"
    IN  IF ~records \/ "Agency_Contribution" \notin columns \/ ~numeric
        THEN [ok |-> FALSE, rows |-> <<>>]
        ELSE [ok |-> TRUE,
              rows |-> [i \in DOMAIN x.val |->
                          [c \in columns |->
                              IF c = "Agency_Contribution"
                              THEN Py("num", round2(Get(x.val[i], c).val))
                              ELSE Get(x.val[i], c)]]]

\* lines 215-216: the payload of the cell, parsed when it is text
LoadAgencies(raw) ==
    IF raw.k = "str" THEN json_loads(raw.s)
    ELSE IF raw.k = "list" THEN Parsed(Py("list", raw.l), 0)
    ELSE Parsed(Py("num", NaN), 0)

\* lines 208-227: the outcome of the selection detail for the drawing the
\* widget reports
AgenciesFor(features, drawing) ==
    LET geoid == drawing.GEOID
        row == SelectSeq(features, LAMBDA r : r.GEOID = geoid)
        loaded == LoadAgencies(row[1].Top_Agencies)
        frame == AgencyFrame(loaded.val)
        nothing == [clicked_geoid |-> "", agencies |-> PyNone, df_ag |-> <<>>]
    IN  IF drawing = None
        THEN nothing @@ [shown |-> <<"info: Click on a tract">>]
        ELSE IF geoid = ""
        THEN nothing @@ [shown |-> <<>>]
        ELSE IF row = <<>>
        THEN [clicked_geoid |-> geoid, agencies |-> PyNone, df_ag |-> <<>>,
              shown |-> <<"success: Selected GEOID", "warning: No matching GEOID">>]
        ELSE IF ~loaded.ok
        THEN [clicked_geoid |-> geoid, agencies |-> PyNone, df_ag |-> <<>>,
              shown |-> <<"success: Selected GEOID", "error: Error reading GEOID click">>]
        ELSE IF ~truthy(loaded.val)
        THEN [clicked_geoid |-> geoid, agencies |-> loaded.val, df_ag |-> <<>>,
              shown |-> <<"success: Selected GEOID", "warning: No agencies found">>]
        ELSE IF ~frame.ok
        THEN [clicked_geoid |-> geoid, agencies |-> loaded.val, df_ag |-> <<>>,
              shown |-> <<"success: Selected GEOID", "error: Error reading GEOID click">>]
        ELSE [clicked_geoid |-> geoid, agencies |-> loaded.val, df_ag |-> frame.rows,
              shown |-> <<"success: Selected GEOID", "dataframe: agencies">>]

\* a detail that falls back to the first drawn tract when the click hit none
Detail_fallback(features, out) ==
    AgenciesFor(features,
                IF out.last_active_drawing = None /\ out.last_clicked # NoClick
                       /\ features # <<>>
                THEN [GEOID |-> features[1].GEOID] ELSE out.last_active_drawing)

\* lines 207-229
Detail(features, out) == AgenciesFor(features, out.last_active_drawing)

\* the selection detail without the try/except: a failure ends the run
ClickDetail_uncaught(s) ==
    /\ pc[s] = "click"
    /\ LET d == Detail(heap[plot_df[s]].rows, map_output[s])
           failed == \E i \in DOMAIN d.shown : d.shown[i] = "error: Error reading GEOID click"
       IN  /\ clicked_geoid' = [clicked_geoid EXCEPT ![s] = d.clicked_geoid]
           /\ agencies' = [agencies EXCEPT ![s] = d.agencies]
           /\ df_ag' = [df_ag EXCEPT ![s] = d.df_ag]
           /\ page' = [page EXCEPT ![s] = Append(@, "subheader: Top Agencies") \o d.shown]
           /\ pc' = [pc EXCEPT ![s] = IF failed THEN "crashed" ELSE "summary"]
    /\ UNCHANGED <<heap, sessions, widgets, frames, scale, map_output, summary>>

\* lines 205-229
ClickDetail(s) ==
    /\ pc[s] = "click"
    /\ LET d == Detail(heap[plot_df[s]].rows, map_output[s])
       IN  /\ clicked_geoid' = [clicked_geoid EXCEPT ![s] = d.clicked_geoid]
           /\ agencies' = [agencies EXCEPT ![s] = d.agencies]
           /\ df_ag' = [df_ag EXCEPT ![s] = d.df_ag]
           /\ page' = [page EXCEPT ![s] = Append(@, "subheader: Top Agencies") \o d.shown]
    /\ pc' = [pc EXCEPT ![s] = "summary"]
    /\ UNCHANGED <<heap, sessions, widgets, frames, scale, map_output, summary>>

TopN == 10

Without(rows, i) == SubSeq(rows, 1, i - 1) \o SubSeq(rows, i + 1, Len(rows))

\* nlargest / nsmallest: the n first rows by score, the earlier row first
\* among equals; rows without a score are left out
RECURSIVE nfirst(_, _, _)
nfirst(rows, n, largest) ==
    LET scored == SelectSeq(rows, LAMBDA r : r.Access_Score.k # "nan")
        Before(x, y) == IF largest THEN FLe(y, x) ELSE FLe(x, y)
        best == CHOOSE i \in DOMAIN scored :
                    /\ \A j \in DOMAIN scored :
                          Before(scored[i].Access_Score, scored[j].Access_Score)
                    /\ \A j \in 1..(i - 1) : scored[j].Access_Score # scored[i].Access_Score
    IN  IF n = 0 \/ scored = <<>> THEN <<>>
        ELSE <<scored[best]>> \o nfirst(Without(scored, best), n - 1, largest)

nlargest(rows, n) == nfirst(rows, n, TRUE)
nsmallest(rows, n) == nfirst(rows, n, FALSE)

SummaryRow(r) ==
    SetCol(Project(r, {"GEOID", "County", "Access_Score"}), "Access_Score",
           round2(r.Access_Score))

\* lines 235-257
Summary(s) ==
    /\ pc[s] = "summary"
    /\ top10' = [top10 EXCEPT ![s] =
                    MapRows(nlargest(heap[filtered_df[s]].rows, TopN), SummaryRow)]
    /\ bottom10' = [bottom10 EXCEPT ![s] =
                    MapRows(nsmallest(heap[filtered_df[s]].rows, TopN), SummaryRow)]
    /\ page' = [page EXCEPT ![s] =
                    @ \o <<"subheader: Top and Bottom Tracts", "top10", "bottom10">>]
    /\ pc' = [pc EXCEPT ![s] = "done"]
    /\ UNCHANGED <<heap, sessions, widgets, frames, scale, map_output, detail>>

Next ==
    \/ \E s \in Sessions : Rerun(s)
    \/ \E s \in Sessions : FilterData(s)
    \/ \E s \in Sessions : CheckEmpty(s)
    \/ \E s \in Sessions : MergeCounty(s)
    \/ \E s \in Sessions : CleanShapefile(s)
    \/ \E s \in Sessions : JoinPlot(s)
    \/ \E s \in Sessions : BuildScale(s)
    \/ \E s \in Sessions : RenderMap(s)
    \/ \E s \in Sessions : ClickDetail(s)
    \/ \E s \in Sessions : Summary(s)

Spec == Init /\ [][Next]_vars

\* two sessions running the script at once against the same cached tables
SharedDatasets ==
    { [pre_df |-> << ScoreRecord("37001", 30, 60, 1, "Mon", 9, F(1234), AgText(ValidAgencies)),
                     ScoreRecord("37002", 30, 60, 1, "Mon", 17, F(2500), AgText(Malformed)) >>,
       geo |-> CensusCase],
      [pre_df |-> << ScoreRecord("37002", 30, 60, 1, "Mon", 9, F(0), AgList(<<Agency("C", 2005)>>)) >>,
       geo |-> MessyCase] }

InitShared == \E ds \in SharedDatasets : InitFrom(ds, Sessions)

SpecShared == InitShared /\ [][Next]_vars

(***************************************************************************)
(* Properties                                                              *)
(***************************************************************************)
Filtered(s) == pc[s] \in {"check", "county", "stopped"}
Cleaned(s) == pc[s] \in {"join", "scale", "map", "click", "summary", "done"}
Joined(s) == pc[s] \in {"scale", "map", "click", "summary", "done"}
Scaled(s) == pc[s] \in {"map", "click", "summary", "done"}
Detailed(s) == pc[s] \in {"summary", "done"}

Rows(ref) == heap[ref].rows
Ids(rows) == {rows[i].GEOID : i \in DOMAIN rows}

Selected(s, r) ==
    /\ r.urban_threshold = urban_sel[s]
    /\ r.rural_threshold = rural_sel[s]
    /\ r.week = week_sel[s]
    /\ r.day = day_sel[s]
    /\ (after_hours[s] => r.hour >= 17)
    /\ (~after_hours[s] => r.hour = hour_sel[s])

\* C1: the filtered frame holds exactly the records of the table that satisfy
\* every predicate of the selection (hour == selected hour, or hour >= 17 in
\* after-hours mode), each as often as the table holds it, and in after-hours
\* mode every position of the hour slider gives the same frame.
C1_FilterExact ==
    \A s \in sessions : Filtered(s) =>
        LET store == Rows(pre_df)
            out == Rows(filtered_df[s])
        IN  /\ \A i \in DOMAIN out : out[i] \in Range(store) /\ Selected(s, out[i])
            /\ \A i \in DOMAIN store : Selected(s, store[i]) => store[i] \in Range(out)
            /\ Len(out) = Cardinality({i \in DOMAIN store : Selected(s, store[i])})
            /\ after_hours[s] =>
                  \A h \in 0..23 :
                      out = SelectSeq(store, LAMBDA r :
                                mask(r, urban_sel[s], rural_sel[s], week_sel[s],
                                     day_sel[s], h, TRUE))

\* after-hours mode keeps the 17:00 record and rejects an earlier one
C1_Witness ==
    \E s \in sessions :
        /\ pc[s] = "check" /\ after_hours[s]
        /\ \E i \in DOMAIN Rows(filtered_df[s]) : Rows(filtered_df[s])[i].hour = 17
        /\ Len(Rows(filtered_df[s])) < Len(Rows(pre_df))

NothingLater(s) ==
    /\ page[s] = <<"title", "warning: No data available">>
    /\ geo_map_subset[s] = NoRef /\ tracts_clean[s] = NoRef
    /\ tracts_filtered[s] = NoRef /\ plot_df[s] = NoRef
    /\ vmin[s] = None /\ vmax[s] = None
    /\ map_output[s] = None
    /\ clicked_geoid[s] = "" /\ agencies[s] = PyNone /\ df_ag[s] = <<>>
    /\ top10[s] = <<>> /\ bottom10[s] = <<>>

\* C2: a run whose filter matched nothing ends in the 'empty result' state
\* with only the warning on the page; no county merge, join, colour scale,
\* map, click handling or summary has run or runs afterwards, and only a new
\* run leaves that state.
C2_EmptyResultTerminal ==
    /\ [](\A s \in sessions :
            pc[s] = "stopped" => Len(Rows(filtered_df[s])) = 0 /\ NothingLater(s))
    /\ [][\A s \in sessions :
            /\ (pc[s] = "check" /\ Len(Rows(filtered_df[s])) = 0 /\ pc'[s] # pc[s])
                  => pc'[s] = "stopped"
            /\ (pc[s] = "stopped" /\ pc'[s] # pc[s])
                  => pc'[s] = "filter" /\ page'[s] = <<"title">>]_vars

C2_Witness == \E s \in sessions : pc[s] = "stopped"

Distinct(rows) ==
    \A i, j \in DOMAIN rows : rows[i].GEOID = rows[j].GEOID => i = j

\* C3: the joined frame holds every tract of the target counties exactly
\* once, so it has as many rows as there are such tracts, however many score
\* records or lookup rows a tract has.
C3_OneRowPerRegion ==
    \A s \in sessions : Joined(s) =>
        /\ Distinct(Rows(plot_df[s]))
        /\ Len(Rows(plot_df[s])) = Len(Rows(tracts_filtered[s]))

InTarget(label) == County_clean(label) \in Range(target_counties)

\* C4: a tract of the target counties without a record in the filtered frame
\* is in the joined frame, once, with Access_Score 0.0, the cleaned county
\* name of the shapefile as County and "[]" as Top_Agencies.
C4_ZeroFilled ==
    \A s \in sessions : Joined(s) =>
        \A i \in DOMAIN Rows(tracts_gdf) :
            LET t == Rows(tracts_gdf)[i]
                hits == {j \in DOMAIN Rows(plot_df[s]) : Rows(plot_df[s])[j].GEOID = t.GEOID}
            IN  (InTarget(t.NAMELSADCO) /\ t.GEOID \notin Ids(Rows(filtered_df[s]))) =>
                    /\ Cardinality(hits) = 1
                    /\ \A j \in hits :
                          /\ Rows(plot_df[s])[j].Access_Score = F(0)
                          /\ Rows(plot_df[s])[j].County = S(County_clean(t.NAMELSADCO))
                          /\ Rows(plot_df[s])[j].Top_Agencies = AgText("[]")
                          /\ Rows(plot_df[s])[j].geometry = t.geometry

C4_Witness ==
    \E s \in sessions :
        /\ Joined(s)
        /\ \E i \in DOMAIN Rows(tracts_gdf) :
              /\ InTarget(Rows(tracts_gdf)[i].NAMELSADCO)
              /\ Rows(tracts_gdf)[i].GEOID \notin Ids(Rows(filtered_df[s]))

\* the cleaned form of each label of the shapefiles, written out by hand
Cleaned_by_hand ==
    [ label \in {"Davie County", "Forsyth County", "Wake County", " davie COUNTY ",
                 "yadkin", "New Hanover County", "WAKE COUNTY"} |->
        CASE label = "Davie County" -> "Davie"
          [] label = "Forsyth County" -> "Forsyth"
          [] label = "Wake County" -> "Wake"
          [] label = " davie COUNTY " -> "Davie"
          [] label = "yadkin" -> "Yadkin"
          [] label = "New Hanover County" -> "New Hanover"
          [] label = "WAKE COUNTY" -> "Wake" ]

Allowed == {"Alamance", "Alexander", "Alleghany", "Ashe", "Caldwell", "Caswell",
            "Davidson", "Davie", "Forsyth", "Guilford", "Iredell", "Randolph",
            "Rockingham", "Stokes", "Surry", "Watauga", "Wilkes", "Yadkin"}

\* C5: every label is compared in its cleaned form (trimmed, trailing
\* "county" removed whatever its case, title-cased); a tract is in the joined
\* frame exactly when its cleaned label is a target county, whether or not it
\* has score records.
C5_AllowListExact ==
    \A s \in sessions :
        /\ Cleaned(s) =>
              /\ \A i \in DOMAIN Rows(tracts_clean[s]) :
                    Rows(tracts_clean[s])[i].County_clean
                        = Cleaned_by_hand[Rows(tracts_clean[s])[i].NAMELSADCO]
              /\ \A i \in DOMAIN Rows(tracts_gdf) :
                    Rows(tracts_gdf)[i].GEOID \in Ids(Rows(tracts_filtered[s]))
                        <=> Cleaned_by_hand[Rows(tracts_gdf)[i].NAMELSADCO] \in Allowed
        /\ Joined(s) =>
              \A i \in DOMAIN Rows(tracts_gdf) :
                  Rows(tracts_gdf)[i].GEOID \in Ids(Rows(plot_df[s]))
                      <=> Cleaned_by_hand[Rows(tracts_gdf)[i].NAMELSADCO] \in Allowed

\* a tract outside the target counties has a matching record and is left out,
\* while a tract with an untidy label is kept
C5_Witness ==
    \E s \in sessions :
        /\ Joined(s)
        /\ \E i \in DOMAIN Rows(tracts_gdf) :
              /\ Rows(tracts_gdf)[i].GEOID \in Ids(Rows(filtered_df[s]))
              /\ Rows(tracts_gdf)[i].GEOID \notin Ids(Rows(plot_df[s]))
        /\ \E j \in DOMAIN Rows(plot_df[s]) :
              Rows(plot_df[s])[j].NAMELSADCO = " davie COUNTY "

Scores(s) == {Rows(plot_df[s])[i].Access_Score : i \in DOMAIN Rows(plot_df[s])}

\* C6: the scale has vmin = 0 and vmax > vmin; vmax is the largest score when
\* that is a finite number above 0 and exactly 1.0 otherwise (no score at all,
\* all scores 0, an infinite score).
C6_ScaleRange ==
    \A s \in sessions : Scaled(s) =>
        /\ vmin[s] = F(0)
        /\ vmax[s].k = "num" /\ vmax[s].v > vmin[s].v
        /\ IF /\ Scores(s) # {}
              /\ \A x \in Scores(s) : x.k = "num"
              /\ \E x \in Scores(s) : x.v > 0
           THEN /\ vmax[s] \in Scores(s)
                /\ \A x \in Scores(s) : x.v <= vmax[s].v
           ELSE vmax[s] = F(1000)

\* every score of a non-empty joined frame is 0
C6_Witness ==
    \E s \in sessions : Scaled(s) /\ Scores(s) = {F(0)} /\ vmax[s] = F(1000)

\* the tracts of the joined frame whose polygon contains the point
Containing(s, p) ==
    {Rows(plot_df[s])[i].GEOID : i \in {j \in DOMAIN Rows(plot_df[s]) :
                                            p \in Rows(plot_df[s])[j].geometry}}

RECURSIVE SumOf(_, _)
SumOf(points, k) ==
    IF points = {} THEN 0
    ELSE LET q == CHOOSE q \in points : TRUE IN q[k] + SumOf(points \ {q}, k)

\* squared distance from p to the centroid of a polygon, times n^2 (n its
\* number of grid points)
Dist2(p, poly) ==
    LET n == Cardinality(poly)
        dx == n * p[1] - SumOf(poly, 1)
        dy == n * p[2] - SumOf(poly, 2)
    IN  [num |-> dx * dx + dy * dy, den |-> n * n]

Closer(a, b) == a.num * b.den <= b.num * a.den

Nearest(s, p) ==
    {Rows(plot_df[s])[i].GEOID : i \in {j \in DOMAIN Rows(plot_df[s]) :
        \A k \in DOMAIN Rows(plot_df[s]) :
            Closer(Dist2(p, Rows(plot_df[s])[j].geometry),
                   Dist2(p, Rows(plot_df[s])[k].geometry))}}

Clicked(s) ==
    Detailed(s) /\ map_output[s].last_clicked # NoClick /\ Rows(plot_df[s]) # <<>>

Shown(s, element) == \E i \in DOMAIN page[s] : page[s][i] = element

ClickedCell(s) ==
    LET hits == {i \in DOMAIN Rows(plot_df[s]) : Rows(plot_df[s])[i].GEOID = clicked_geoid[s]}
    IN  Rows(plot_df[s])[CHOOSE i \in hits : \A j \in hits : i <= j].Top_Agencies

HasCell(s) == Detailed(s) /\ clicked_geoid[s] \in Ids(Rows(plot_df[s]))

SummaryShown(s) ==
    /\ Len(page[s]) >= 3
    /\ SubSeq(page[s], Len(page[s]) - 2, Len(page[s]))
          = <<"subheader: Top and Bottom Tracts", "top10", "bottom10">>
    /\ Len(top10[s]) >= 1 /\ Len(bottom10[s]) >= 1

\* C8: a malformed Top_Agencies payload of the clicked tract gives no agency
\* rows and an error message for that tract; the run goes on to the summary,
\* and the selection detail changes neither the joined frame nor any other
\* frame, the scale or the map.
C8_MalformedNotFatal ==
    /\ [](\A s \in sessions :
            (HasCell(s) /\ ClickedCell(s) = AgText("{not json")) =>
                /\ df_ag[s] = <<>> /\ agencies[s] = PyNone
                /\ Shown(s, "error: Error reading GEOID click")
                /\ ~Shown(s, "dataframe: agencies")
                /\ Shown(s, "map")
                /\ pc[s] = "done" => SummaryShown(s))
    /\ [][\A s \in sessions :
            (pc[s] = "click" /\ pc'[s] # pc[s]) =>
                /\ pc'[s] = "summary"
                /\ heap' = heap /\ plot_df' = plot_df /\ filtered_df' = filtered_df
                /\ vmin' = vmin /\ vmax' = vmax /\ map_output' = map_output]_vars
    /\ [][\A s \in sessions :
            (pc[s] = "summary" /\ pc'[s] # pc[s]) => pc'[s] = "done"]_vars

C8_Witness ==
    \E s \in sessions :
        /\ pc[s] = "done" /\ HasCell(s) /\ ClickedCell(s) = AgText("{not json")
        /\ Len(Rows(plot_df[s])) >= 2

\* C9: a "[]" payload, filled in or stored, gives an empty list and the 'no
\* agencies' message, never the error message; a payload that is already a
\* list is taken as it is.
C9_EmptyIsValid ==
    \A s \in sessions : HasCell(s) =>
        /\ clicked_geoid[s] \notin Ids(Rows(filtered_df[s])) => ClickedCell(s) = AgText("[]")
        /\ ClickedCell(s) = AgText("[]") =>
              /\ agencies[s] = Py("list", <<>>)
              /\ df_ag[s] = <<>>
              /\ Shown(s, "warning: No agencies found")
              /\ ~Shown(s, "error: Error reading GEOID click")
        /\ ClickedCell(s).k = "list" =>
              /\ agencies[s] = Py("list", ClickedCell(s).l)
              /\ ~Shown(s, "error: Error reading GEOID click")
              /\ ClickedCell(s).l = <<>> => Shown(s, "warning: No agencies found")
              /\ ClickedCell(s).l # <<>> =>
                    Shown(s, "dataframe: agencies") /\ Len(df_ag[s]) = Len(ClickedCell(s).l)

\* the clicked tract has no record in the filtered frame
C9_Witness ==
    \E s \in sessions :
        /\ HasCell(s) /\ clicked_geoid[s] \notin Ids(Rows(filtered_df[s]))
        /\ Shown(s, "warning: No agencies found")

\* C10: no step of any run changes the cached score table, tract geometry or
\* county lookup, also when two sessions run at once.
C10_StoreUnchanged ==
    [][/\ heap'[pre_df] = heap[pre_df]
       /\ heap'[tracts_gdf] = heap[tracts_gdf]
       /\ heap'[geo_map] = heap[geo_map]]_vars

\* both sessions are in the middle of a run, past the county clean-up
C10_Witness ==
    /\ sessions = {1, 2}
    /\ pc[1] = "join" /\ pc[2] = "summary"
    /\ heap[tracts_clean[1]] # heap[tracts_gdf]

====
